---- MODULE Spec2Model ----
(***************************************************************************)
(* State-machine model of epub_to_pdf.py: the batch driver (main), the     *)
(* conversion routine (epub_to_pdf), content extraction with the image     *)
(* catalog (extract_epub_content), image-reference resolution              *)
(* (process_html_images) and markup assembly (create_pdf).                 *)
(*                                                                         *)
(* Strings that the program inspects character by character (archive       *)
(* paths, src attributes) are sequences of one-character strings, so that  *)
(* dirname, basename, normpath, endswith and the substring test are        *)
(* computed as Python computes them.                                       *)
(***************************************************************************)
EXTENDS Integers, Sequences, FiniteSets, TLC

\* ------------------------------------------------------------------------
\* Bounds of the model
\* ------------------------------------------------------------------------
MaxFiles == 2
MaxImages == 2
MaxChapters == 2

\* ------------------------------------------------------------------------
\* String helpers (Python str / posixpath semantics on character sequences)
\* ------------------------------------------------------------------------
Slash == <<"/">>
Dot == <<".">>
DotDot == <<".", ".">>

StartsWith(s, p) == Len(s) >= Len(p) /\ SubSeq(s, 1, Len(p)) = p

EndsWith(s, p) == Len(s) >= Len(p) /\ SubSeq(s, Len(s) - Len(p) + 1, Len(s)) = p

\* Python: p in s
Contains(s, p) == \E i \in 0..(Len(s) - Len(p)) : SubSeq(s, i + 1, i + Len(p)) = p

\* 1-based index of the last occurrence of character c in s, 0 when absent
\* (Python: s.rfind(c) + 1)
RFind(s, c) ==
  LET hits == {i \in 1..Len(s) : s[i] = c}
  IN IF hits = {} THEN 0 ELSE CHOOSE i \in hits : \A j \in hits : j <= i

RECURSIVE RStripSlash(_)
RStripSlash(s) ==
  IF s # <<>> /\ s[Len(s)] = "/" THEN RStripSlash(SubSeq(s, 1, Len(s) - 1)) ELSE s

\* Python: s.lstrip('/')
RECURSIVE LStripSlash(_)
LStripSlash(s) ==
  IF s # <<>> /\ s[1] = "/" THEN LStripSlash(Tail(s)) ELSE s

\* Python: s.replace('\\', '/')
ReplaceBackslash(s) == [i \in 1..Len(s) |-> IF s[i] = "\\" THEN "/" ELSE s[i]]

\* posixpath.dirname
Dirname(p) ==
  LET head == SubSeq(p, 1, RFind(p, "/"))
  IN IF head # <<>> /\ (\E i \in 1..Len(head) : head[i] # "/")
     THEN RStripSlash(head) ELSE head

\* posixpath.basename
Basename(p) == SubSeq(p, RFind(p, "/") + 1, Len(p))

\* posixpath.join(a, b)
Join(a, b) ==
  IF StartsWith(b, Slash) THEN b
  ELSE IF a = <<>> \/ a[Len(a)] = "/" THEN a \o b
  ELSE a \o Slash \o b

\* Python: s.split('/')
RECURSIVE SplitSlash(_)
SplitSlash(s) ==
  LET hits == {i \in 1..Len(s) : s[i] = "/"}
  IN IF hits = {} THEN <<s>>
     ELSE LET i == CHOOSE k \in hits : \A j \in hits : k <= j
          IN <<SubSeq(s, 1, i - 1)>> \o SplitSlash(SubSeq(s, i + 1, Len(s)))

\* Python: '/'.join(comps)
RECURSIVE JoinSlash(_)
JoinSlash(comps) ==
  IF comps = <<>> THEN <<>>
  ELSE IF Len(comps) = 1 THEN comps[1]
  ELSE comps[1] \o Slash \o JoinSlash(Tail(comps))

\* the component loop of posixpath.normpath
RECURSIVE NormComps(_, _, _)
NormComps(comps, new_comps, initial_slashes) ==
  IF comps = <<>> THEN new_comps
  ELSE LET comp == Head(comps)
       IN IF comp = <<>> \/ comp = Dot
          THEN NormComps(Tail(comps), new_comps, initial_slashes)
          ELSE IF comp # DotDot
                  \/ (initial_slashes = 0 /\ new_comps = <<>>)
                  \/ (new_comps # <<>> /\ new_comps[Len(new_comps)] = DotDot)
          THEN NormComps(Tail(comps), Append(new_comps, comp), initial_slashes)
          ELSE IF new_comps # <<>>
          THEN NormComps(Tail(comps), SubSeq(new_comps, 1, Len(new_comps) - 1), initial_slashes)
          ELSE NormComps(Tail(comps), new_comps, initial_slashes)

\* posixpath.normpath
Normpath(path) ==
  IF path = <<>> THEN Dot
  ELSE LET initial_slashes ==
             IF ~StartsWith(path, Slash) THEN 0
             ELSE IF StartsWith(path, <<"/", "/">>) /\ ~StartsWith(path, <<"/", "/", "/">>)
             THEN 2 ELSE 1
           joined == JoinSlash(NormComps(SplitSlash(path), <<>>, initial_slashes))
           full == [i \in 1..initial_slashes |-> "/"] \o joined
       IN IF full = <<>> THEN Dot ELSE full

\* Python: c.lower() on the letters the model's names use
LowerChar(c) ==
  CASE c = "P" -> "p" [] c = "N" -> "n" [] c = "G" -> "g" [] c = "I" -> "i"
    [] c = "F" -> "f" [] c = "J" -> "j" [] c = "E" -> "e" [] OTHER -> c

Lower(s) == [i \in 1..Len(s) |-> LowerChar(s[i])]

\* posixpath.splitext(p)[1]
SplitextExt(p) ==
  LET sepIndex == RFind(p, "/")
      dotIndex == RFind(p, ".")
  IN IF dotIndex > sepIndex
        /\ \E k \in (sepIndex + 1)..(dotIndex - 1) : p[k] # "."
     THEN SubSeq(p, dotIndex, Len(p))
     ELSE <<>>

\* ------------------------------------------------------------------------
\* Archive contents: names, items, books
\* ------------------------------------------------------------------------
N_i_c_GIF == <<"i", "/", "c", ".", "G", "I", "F">>
N_i_p_png == <<"i", "/", "p", ".", "p", "n", "g">>
N_p_png == <<"p", ".", "p", "n", "g">>
N_t_p_png == <<"t", "/", "p", ".", "p", "n", "g">>
N_x_p_png == <<"x", "/", "p", ".", "p", "n", "g">>
N_i_r_bmp == <<"i", "/", "r", ".", "b", "m", "p">>
N_t_a_html == <<"t", "/", "a", ".", "h">>
N_t_b_html == <<"t", "/", "b", ".", "h">>
N_c_html == <<"c", ".", "h">>

S_up_i_c_GIF == <<".", ".", "/", "i", "/", "c", ".", "G", "I", "F">>
S_abs_i_c_GIF == <<"/", "i", "/", "c", ".", "G", "I", "F">>
S_bs_i_c_GIF == <<"i", "\\", "c", ".", "G", "I", "F">>
S_p_png == <<"p", ".", "p", "n", "g">>
S_i_p == <<"i", "/", "p">>
S_z_gif == <<"z", ".", "g", "i", "f">>
S_empty == <<>>

\* An item of the archive (book.get_items()).  media_type "" is an absent
\* declared type; readable = FALSE is an item whose get_content() raises.
Item(kind, id, name, media_type, readable, content, srcs, has_body) ==
  [kind |-> kind, id |-> id, name |-> name, media_type |-> media_type,
   readable |-> readable, content |-> content, srcs |-> srcs, has_body |-> has_body]

ImageItem(id, name, media_type, readable, content) ==
  Item("image", id, name, media_type, readable, content, <<>>, FALSE)

HtmlItem(id, name, readable, srcs, has_body) ==
  Item("html", id, name, "", readable, 0, srcs, has_body)

CssItem(id, readable, content) ==
  Item("css", id, <<>>, "", readable, content, <<>>, FALSE)

ImagePool ==
  { ImageItem("i1", N_i_c_GIF, "", TRUE, 1),
    ImageItem("i2", N_i_p_png, "", TRUE, 2),
    ImageItem("i3", N_p_png, "image/x-png", TRUE, 3),
    ImageItem("i4", N_t_p_png, "", TRUE, 4),
    ImageItem("i5", N_x_p_png, "", FALSE, 5),
    ImageItem("i6", N_i_r_bmp, "", TRUE, 6) }

HtmlPool ==
  { HtmlItem("h1", N_t_a_html, TRUE, <<S_up_i_c_GIF, S_p_png>>, TRUE),
    HtmlItem("h2", N_t_b_html, TRUE, <<S_p_png, S_empty, S_z_gif>>, TRUE),
    HtmlItem("h3", N_c_html, TRUE, <<S_abs_i_c_GIF, S_i_p, S_bs_i_c_GIF>>, FALSE) }

\* An entry of book.spine: a bare id or a tuple (id, linear)
SpineId(id) == [is_tuple |-> FALSE, id |-> id]
SpineTuple(id) == [is_tuple |-> TRUE, id |-> id]

\* The rest of an archive: its reading sequence and its stylesheets
ShellPool ==
  { [spine |-> <<>>, css |-> <<>>],
    [spine |-> <<SpineTuple("h2"), SpineTuple("h1"), SpineTuple("h2")>>,
     css |-> <<CssItem("c1", TRUE, 8), CssItem("c2", FALSE, 9)>>],
    [spine |-> <<SpineId("nav"), SpineTuple("h3"), SpineId("i1"), SpineId("h2")>>,
     css |-> <<CssItem("c1", TRUE, 8)>>] }

\* sequences of at most n distinct elements of S
Arrangements(S, n) ==
  {q \in UNION {[1..k -> S] : k \in 0..n} : \A i, j \in 1..Len(q) : i < j => q[i] # q[j]}

\* the archives epub.read_epub may return
Books ==
  { [items |-> imgs \o htmls \o shell.css, spine |-> shell.spine] :
      imgs \in Arrangements(ImagePool, MaxImages),
      htmls \in Arrangements(HtmlPool, MaxChapters),
      shell \in ShellPool }

NoBook == [items |-> <<>>, spine |-> <<>>]

\* ------------------------------------------------------------------------
\* Attribute values and the image catalog
\* ------------------------------------------------------------------------
\* base64.b64encode(img_data).decode('ascii')
B64(content) == <<"b64", content>>

\* an src attribute holding its original text
Plain(text) == [data |-> FALSE, text |-> text, mt |-> "", b64 |-> <<>>]

\* f"data:{media_type};base64,{b64_data}"
DataUri(media_type, b64_data) ==
  [data |-> TRUE, text |-> <<>>, mt |-> media_type, b64 |-> b64_data]

EmptyCatalog == [k \in {} |-> Plain(<<>>)]

\* images[k] = v
Put(images, k, v) == [x \in DOMAIN images \cup {k} |-> IF x = k THEN v ELSE images[x]]

\* mime_map.get(ext, 'image/jpeg')
MimeMap(ext) ==
  CASE ext = <<".", "j", "p", "g">> -> "image/jpeg"
    [] ext = <<".", "j", "p", "e", "g">> -> "image/jpeg"
    [] ext = <<".", "p", "n", "g">> -> "image/png"
    [] ext = <<".", "g", "i", "f">> -> "image/gif"
    [] ext = <<".", "s", "v", "g">> -> "image/svg+xml"
    [] ext = <<".", "w", "e", "b", "p">> -> "image/webp"
    [] OTHER -> "image/jpeg"

\* media type stored by the catalog build
BuildMediaType(item) ==
  IF item.media_type # "" THEN item.media_type
  ELSE MimeMap(Lower(SplitextExt(item.name)))

\* BuildCatalog without the except clause's skip: an image whose payload
\* cannot be read is stored with an empty payload
RECURSIVE BuildCatalog_KeepsUnreadable(_, _)
BuildCatalog_KeepsUnreadable(items, images) ==
  IF items = <<>> THEN images
  ELSE LET item == Head(items)
       IN IF item.kind = "image"
          THEN BuildCatalog_KeepsUnreadable(
                 Tail(items),
                 Put(images, item.name,
                     DataUri(BuildMediaType(item),
                             IF item.readable THEN B64(item.content) ELSE <<>>)))
          ELSE BuildCatalog_KeepsUnreadable(Tail(items), images)

\* the image loop of extract_epub_content
RECURSIVE BuildCatalog(_, _)
BuildCatalog(items, images) ==
  IF items = <<>> THEN images
  ELSE LET item == Head(items)
       IN IF item.kind = "image" /\ item.readable
          THEN BuildCatalog(Tail(items),
                            Put(images, item.name, DataUri(BuildMediaType(item), B64(item.content))))
          ELSE BuildCatalog(Tail(items), images)

\* the stylesheet loop of extract_epub_content
RECURSIVE ExtractCss(_)
ExtractCss(items) ==
  IF items = <<>> THEN <<>>
  ELSE LET item == Head(items)
       IN IF item.kind = "css" /\ item.readable
          THEN <<item.content>> \o ExtractCss(Tail(items))
          ELSE ExtractCss(Tail(items))

\* ------------------------------------------------------------------------
\* process_html_images
\* ------------------------------------------------------------------------
\* the candidate catalog key img_path of a reference
ImgPath(src, html_file_name) ==
  IF StartsWith(src, <<".", ".", "/">>)
  THEN ReplaceBackslash(Normpath(Join(Dirname(html_file_name), src)))
  ELSE IF StartsWith(src, Slash)
  THEN LStripSlash(src)
  ELSE LET html_dir == Dirname(html_file_name)
       IN ReplaceBackslash(IF html_dir # <<>> THEN Join(html_dir, src) ELSE src)

\* the test of the archive scan on one image item
ScanMatch(item_name, img_path, img_name, src) ==
  item_name = img_path \/ EndsWith(item_name, img_name) \/ Contains(item_name, src)

\* media type used by the archive scan
ScanMediaType(item) == IF item.media_type # "" THEN item.media_type ELSE "image/jpeg"

\* ScanItems without the break: the last readable match wins
RECURSIVE ScanItems_Last(_, _, _, _, _)
ScanItems_Last(items, i, img_path, img_name, src) ==
  IF i > Len(items) THEN 0
  ELSE LET later == ScanItems_Last(items, i + 1, img_path, img_name, src)
       IN IF later # 0 THEN later
          ELSE IF items[i].kind = "image"
                  /\ ScanMatch(items[i].name, img_path, img_name, src)
                  /\ items[i].readable
          THEN i
          ELSE 0

\* The archive scan: index in items of the item whose data reference is
\* substituted (the loop breaks there), 0 when the loop ends without one.
\* An item whose get_content() raises is passed over by the except clause.
RECURSIVE ScanItems(_, _, _, _, _)
ScanItems(items, i, img_path, img_name, src) ==
  IF i > Len(items) THEN 0
  ELSE IF items[i].kind = "image"
          /\ ScanMatch(items[i].name, img_path, img_name, src)
          /\ items[i].readable
  THEN i
  ELSE ScanItems(items, i + 1, img_path, img_name, src)

\* the outcome of one iteration of the img loop: the new attribute value,
\* the catalog afterwards, which lookup answered (0: none) and, for the
\* scan, the index of the item taken
Resolved(attr, images, tier, item) ==
  [attr |-> attr, images |-> images, tier |-> tier, item |-> item]

\* the data reference the scan builds for an item
ScanDataUri(item) == DataUri(ScanMediaType(item), B64(item.content))

\* ScanResult leaving the catalog as it was
ScanResult_NotStored(src, images, items, hit) ==
  IF hit # 0
  THEN Resolved(ScanDataUri(items[hit]), images, 3, hit)
  ELSE Resolved(Plain(src), images, 0, 0)

\* ScanResult blanking the src of a reference that nothing resolves
ScanResult_DropsUnresolved(src, images, items, hit) ==
  IF hit # 0
  THEN Resolved(ScanDataUri(items[hit]),
                Put(images, items[hit].name, ScanDataUri(items[hit])), 3, hit)
  ELSE Resolved(Plain(<<>>), images, 0, 0)

\* the end of the archive scan: the item at hit is substituted and stored
\* under its own name; with no hit the reference stays as it is
ScanResult(src, images, items, hit) ==
  IF hit # 0
  THEN Resolved(ScanDataUri(items[hit]),
                Put(images, items[hit].name, ScanDataUri(items[hit])), 3, hit)
  ELSE Resolved(Plain(src), images, 0, 0)

\* Lookup with the bare filename tried before the candidate key
Lookup_BasenameFirst(src, img_path, img_name, images, items) ==
  IF img_name \in DOMAIN images
  THEN Resolved(images[img_name], images, 2, 0)
  ELSE IF img_path \in DOMAIN images
  THEN Resolved(images[img_path], images, 1, 0)
  ELSE ScanResult(src, images, items, ScanItems(items, 1, img_path, img_name, src))

\* "Try to find the image": the candidate key, then the bare filename,
\* then the archive scan
Lookup(src, img_path, img_name, images, items) ==
  IF img_path \in DOMAIN images
  THEN Resolved(images[img_path], images, 1, 0)
  ELSE IF img_name \in DOMAIN images
  THEN Resolved(images[img_name], images, 2, 0)
  ELSE ScanResult(src, images, items, ScanItems(items, 1, img_path, img_name, src))

\* one iteration of the img loop for a non-empty src
ResolveRef(src, html_file_name, images, items) ==
  Lookup(src, ImgPath(src, html_file_name), Basename(src), images, items)

\* what the run records about one resolved reference
LogEntry(chapter, pos, html_file_name, src, images, r) ==
  [chapter |-> chapter, pos |-> pos, file |-> html_file_name, src |-> src,
   path |-> ImgPath(src, html_file_name), name |-> Basename(src),
   before |-> images, after |-> r.images, tier |-> r.tier, item |-> r.item,
   attr |-> r.attr]

\* the result of process_html_images: the rewritten attributes, the catalog
\* afterwards, and the record of the references it handled
Processed(attrs, images, log) == [attrs |-> attrs, images |-> images, log |-> log]

\* the result for an img element put in front of the result for the rest
Cons(attr, entries, rest) ==
  Processed(<<attr>> \o rest.attrs, rest.images, entries \o rest.log)

\* process_html_images on the src attributes of a chapter's img elements,
\* from position pos
RECURSIVE ProcessHtmlImages(_, _, _, _, _, _)
RECURSIVE ProcessResolved(_, _, _, _, _, _, _)
ProcessResolved(srcs, pos, html_file_name, images, items, chapter, r) ==
  Cons(r.attr,
       <<LogEntry(chapter, pos, html_file_name, srcs[pos], images, r)>>,
       ProcessHtmlImages(srcs, pos + 1, html_file_name, r.images, items, chapter))

ProcessHtmlImages(srcs, pos, html_file_name, images, items, chapter) ==
  IF pos > Len(srcs) THEN Processed(<<>>, images, <<>>)
  ELSE IF srcs[pos] = <<>>
  THEN Cons(Plain(srcs[pos]), <<>>,
            ProcessHtmlImages(srcs, pos + 1, html_file_name, images, items, chapter))
  ELSE ProcessResolved(srcs, pos, html_file_name, images, items, chapter,
                       ResolveRef(srcs[pos], html_file_name, images, items))

\* ------------------------------------------------------------------------
\* extract_epub_content: chapters
\* ------------------------------------------------------------------------
\* book.get_item_with_id: index of the first item with that id, 0 for None
GetItemWithId(items, item_id) ==
  LET hits == {i \in 1..Len(items) : items[i].id = item_id}
  IN IF hits = {} THEN 0 ELSE CHOOSE i \in hits : \A j \in hits : i <= j

\* a chapter appended to html_content
Chapter(item, attrs) ==
  [id |-> item.id, name |-> item.name, attrs |-> attrs, has_body |-> item.has_body]

\* the accumulated result of the chapter loops
Acc(html_content, images, log) ==
  [html_content |-> html_content, images |-> images, log |-> log]

\* html_content.append(content) with the resolved content r
Appended(item, acc, r) ==
  Acc(Append(acc.html_content, Chapter(item, r.attrs)), r.images, acc.log \o r.log)

\* one HTML item read, resolved and appended (or skipped when reading raises)
AppendChapter(item, acc, items) ==
  IF ~item.readable THEN acc
  ELSE Appended(item, acc,
                ProcessHtmlImages(item.srcs, 1, item.name, acc.images, items,
                                  Len(acc.html_content) + 1))

\* the loop over book.spine
RECURSIVE SpineLoop(_, _, _, _)
SpineLoop(spine, processed_items, acc, items) ==
  IF spine = <<>> THEN acc
  ELSE LET item_id == Head(spine).id
           k == GetItemWithId(items, item_id)
       IN IF item_id \in processed_items
          THEN SpineLoop(Tail(spine), processed_items, acc, items)
          ELSE IF k # 0 /\ items[k].kind = "html"
          THEN SpineLoop(Tail(spine), processed_items \cup {item_id},
                         AppendChapter(items[k], acc, items), items)
          ELSE SpineLoop(Tail(spine), processed_items \cup {item_id}, acc, items)

\* the loop over all items, taken when the spine loop appended nothing
RECURSIVE AllHtmlLoop(_, _, _)
AllHtmlLoop(rest, acc, items) ==
  IF rest = <<>> THEN acc
  ELSE IF Head(rest).kind = "html"
  THEN AllHtmlLoop(Tail(rest), AppendChapter(Head(rest), acc, items), items)
  ELSE AllHtmlLoop(Tail(rest), acc, items)

\* "if not html_content": the loop over all items runs when the spine loop
\* appended nothing
OrAllHtml(by_spine, items) ==
  IF by_spine.html_content = <<>> THEN AllHtmlLoop(items, by_spine, items) ELSE by_spine

\* ExtractChapters taking the archive's listing whatever the spine says
ExtractChapters_ArchiveOrder(b, catalog) ==
  AllHtmlLoop(b.items, Acc(<<>>, catalog, <<>>), b.items)

\* html_content, images and the record of resolutions of extract_epub_content
ExtractChapters(b, catalog) ==
  OrAllHtml(SpineLoop(b.spine, {}, Acc(<<>>, catalog, <<>>), b.items), b.items)

\* ------------------------------------------------------------------------
\* create_pdf: the assembled markup as a sequence of written pieces
\* ------------------------------------------------------------------------
Piece(tok, id, attrs) == [tok |-> tok, id |-> id, attrs |-> attrs]

PageBreak == Piece("page_break", "", <<>>)

RECURSIVE CssPieces(_)
CssPieces(css_content) ==
  IF css_content = <<>> THEN <<>>
  ELSE <<Piece("css", "", <<css_content[1]>>)>> \o CssPieces(Tail(css_content))

\* ChapterPieces writing the page break after every chapter
RECURSIVE ChapterPieces_BreakAfterEach(_, _)
ChapterPieces_BreakAfterEach(html_content, i) ==
  IF i >= Len(html_content) THEN <<>>
  ELSE LET html == html_content[i + 1]
           body == Piece(IF html.has_body THEN "body_children" ELSE "whole", html.id, html.attrs)
       IN <<body>> \o <<PageBreak>> \o ChapterPieces_BreakAfterEach(html_content, i + 1)

\* the enumerate loop over html_content, from index i (0-based as in the code)
RECURSIVE ChapterPieces(_, _)
ChapterPieces(html_content, i) ==
  IF i >= Len(html_content) THEN <<>>
  ELSE LET html == html_content[i + 1]
           body == Piece(IF html.has_body THEN "body_children" ELSE "whole", html.id, html.attrs)
       IN (IF i > 0 THEN <<PageBreak>> ELSE <<>>) \o <<body>> \o ChapterPieces(html_content, i + 1)

CombinedHtml(html_content, css_content) ==
  <<Piece("preamble", "", <<>>)>> \o CssPieces(css_content)
    \o <<Piece("head_end", "", <<>>)>> \o ChapterPieces(html_content, 0)
    \o <<Piece("doc_end", "", <<>>)>>

\* ------------------------------------------------------------------------
\* The program as a state machine
\* ------------------------------------------------------------------------
VARIABLES
  mode,           \* "single": an epub_file argument was given; "batch": none
  nfiles,         \* len(epub_files)
  idx,            \* position of the file being converted (1-based)
  success_count,  \* main's success_count
  results,        \* return values of the finished epub_to_pdf calls, in order
  started,        \* positions for which epub_to_pdf was called, in order
  pc,             \* where the program is
  path_exists,    \* os.path.exists(epub_path) of the current call
  opened,         \* whether epub.read_epub returned a book
  book,           \* the book read from the current file
  html_content,   \* extract_epub_content's html_content
  css_content,    \* extract_epub_content's css_content
  images,         \* the image catalog of the current conversion
  log,            \* the references process_html_images handled, in order
  combined_html,  \* create_pdf's assembled markup
  render_calls,   \* calls of write_pdf in the current conversion
  message,        \* what the current call of epub_to_pdf printed as its outcome
  retval          \* epub_to_pdf's return value

vars == <<mode, nfiles, idx, success_count, results, started, pc, path_exists, opened,
          book, html_content, css_content, images, log, combined_html, render_calls,
          message, retval>>

driver == <<mode, nfiles, idx, success_count, results>>
locals == <<path_exists, opened, book, html_content, css_content, images, log,
            combined_html, render_calls, message, retval>>

Init ==
  /\ mode \in {"single", "batch"}
  /\ nfiles \in IF mode = "single" THEN {1} ELSE 0..MaxFiles
  /\ idx = 1
  /\ success_count = 0
  /\ results = <<>>
  /\ started = <<>>
  /\ pc = "main"
  /\ path_exists = FALSE
  /\ opened = FALSE
  /\ book = NoBook
  /\ html_content = <<>>
  /\ css_content = <<>>
  /\ images = EmptyCatalog
  /\ log = <<>>
  /\ combined_html = <<>>
  /\ render_calls = 0
  /\ message = ""
  /\ retval = FALSE

\* main up to the first call of epub_to_pdf
Main ==
  /\ pc = "main"
  /\ pc' = IF mode = "batch" /\ nfiles = 0 THEN "done" ELSE "epub_to_pdf"
  /\ UNCHANGED <<driver, started, locals>>

\* epub_to_pdf: the existence test
EpubToPdf ==
  /\ pc = "epub_to_pdf"
  /\ started' = Append(started, idx)
  /\ \E e \in BOOLEAN :
       /\ path_exists' = e
       /\ pc' = IF e THEN "read_epub" ELSE "returned"
       /\ message' = IF e THEN "" ELSE "not_found"
  /\ retval' = FALSE
  /\ UNCHANGED <<driver, opened, book, html_content, css_content, images, log,
                 combined_html, render_calls>>

\* extract_epub_content: epub.read_epub raises
ReadEpubFails ==
  /\ pc = "read_epub"
  /\ opened' = FALSE
  /\ pc' = "content_check"
  /\ UNCHANGED <<driver, started, path_exists, book, html_content, css_content, images,
                 log, combined_html, render_calls, message, retval>>

\* extract_epub_content: epub.read_epub returns a book
ReadEpub ==
  /\ pc = "read_epub"
  /\ \E b \in Books : book' = b
  /\ opened' = TRUE
  /\ pc' = "extract_images"
  /\ UNCHANGED <<driver, started, path_exists, html_content, css_content, images,
                 log, combined_html, render_calls, message, retval>>

\* extract_epub_content: the stylesheet loop and the image loop
ExtractImages ==
  /\ pc = "extract_images"
  /\ css_content' = ExtractCss(book.items)
  /\ images' = BuildCatalog(book.items, EmptyCatalog)
  /\ pc' = "extract_html"
  /\ UNCHANGED <<driver, started, path_exists, opened, book, html_content, log,
                 combined_html, render_calls, message, retval>>

\* extract_epub_content: the spine loop and the all-items loop
ExtractHtml ==
  /\ pc = "extract_html"
  /\ LET r == ExtractChapters(book, images)
     IN /\ html_content' = r.html_content
        /\ images' = r.images
        /\ log' = r.log
  /\ pc' = "content_check"
  /\ UNCHANGED <<driver, started, path_exists, opened, book, css_content,
                 combined_html, render_calls, message, retval>>

\* epub_to_pdf: no HTML content
NoContent ==
  /\ pc = "content_check"
  /\ html_content = <<>>
  /\ retval' = FALSE
  /\ message' = "no_content"
  /\ pc' = "returned"
  /\ UNCHANGED <<driver, started, path_exists, opened, book, html_content, css_content,
                 images, log, combined_html, render_calls>>

\* CreatePdf without the test for empty html_content
CreatePdf_Unguarded ==
  /\ pc = "content_check"
  /\ combined_html' = CombinedHtml(html_content, css_content)
  /\ render_calls' = render_calls + 1
  /\ \E ok \in BOOLEAN :
       /\ retval' = ok
       /\ message' = IF ok THEN "success" ELSE "render_error"
  /\ pc' = "returned"
  /\ UNCHANGED <<driver, started, path_exists, opened, book, html_content, css_content,
                 images, log>>

\* epub_to_pdf: create_pdf, whose rendering succeeds or raises
CreatePdf ==
  /\ pc = "content_check"
  /\ html_content # <<>>
  /\ combined_html' = CombinedHtml(html_content, css_content)
  /\ render_calls' = render_calls + 1
  /\ \E ok \in BOOLEAN :
       /\ retval' = ok
       /\ message' = IF ok THEN "success" ELSE "render_error"
  /\ pc' = "returned"
  /\ UNCHANGED <<driver, started, path_exists, opened, book, html_content, css_content,
                 images, log>>

\* the locals of a finished call are gone
ResetLocals ==
  /\ path_exists' = FALSE
  /\ opened' = FALSE
  /\ book' = NoBook
  /\ html_content' = <<>>
  /\ css_content' = <<>>
  /\ images' = EmptyCatalog
  /\ log' = <<>>
  /\ combined_html' = <<>>
  /\ render_calls' = 0
  /\ message' = ""
  /\ retval' = FALSE

\* Tally counting every call, failed or not
Tally_CountsAll(count, ok) == count + 1

\* success_count after one more call returned ok
Tally(count, ok) == IF ok THEN count + 1 ELSE count

\* main, batch mode: the end of one iteration of the loop over epub_files
BatchNext ==
  /\ pc = "returned"
  /\ mode = "batch"
  /\ success_count' = Tally(success_count, retval)
  /\ results' = Append(results, retval)
  /\ IF idx < nfiles
     THEN idx' = idx + 1 /\ pc' = "epub_to_pdf"
     ELSE idx' = idx /\ pc' = "done"
  /\ ResetLocals
  /\ UNCHANGED <<mode, nfiles, started>>

\* main, single-file mode: the call returns and main ends
SingleDone ==
  /\ pc = "returned"
  /\ mode = "single"
  /\ results' = Append(results, retval)
  /\ pc' = "done"
  /\ ResetLocals
  /\ UNCHANGED <<mode, nfiles, idx, success_count, started>>

Next ==
  \/ Main
  \/ EpubToPdf
  \/ ReadEpubFails
  \/ ReadEpub
  \/ ExtractImages
  \/ ExtractHtml
  \/ NoContent
  \/ CreatePdf
  \/ BatchNext
  \/ SingleDone

Spec == Init /\ [][Next]_vars

\* ------------------------------------------------------------------------
\* Properties
\* ------------------------------------------------------------------------
Converting == pc \in {"extract_html", "content_check", "returned"} /\ opened

\* positions of the image items of the current book, in archive order
ImageIdx == {i \in 1..Len(book.items) : book.items[i].kind = "image"}

\* the three-way condition of the fallback scan, stated on a logged reference
T3Cond(item_name, e) ==
  item_name = e.path \/ EndsWith(item_name, e.name) \/ Contains(item_name, e.src)

\* image items satisfying the fallback condition for a logged reference
Matching(e) == {i \in ImageIdx : T3Cond(book.items[i].name, e)}

MissesBoth(e) == e.path \notin DOMAIN e.before /\ e.name \notin DOMAIN e.before

\* the attribute the output markup carries for a logged reference
OutAttr(e) == html_content[e.chapter].attrs[e.pos]

\* C1: every reference with a non-empty src is looked up in strict
\* precedence: a candidate key that is a catalog key is answered by the
\* entry at that key; otherwise a bare filename that is a catalog key is
\* answered by the entry at the bare filename; the archive scan answers
\* only when both lookups miss.
C1_TierPrecedence ==
  \A n \in 1..Len(log) :
    LET e == log[n]
    IN /\ e.path \in DOMAIN e.before
            => e.tier = 1 /\ OutAttr(e) = e.before[e.path] /\ e.after = e.before
       /\ (e.path \notin DOMAIN e.before /\ e.name \in DOMAIN e.before)
            => e.tier = 2 /\ OutAttr(e) = e.before[e.name] /\ e.after = e.before
       /\ e.tier = 3 => MissesBoth(e)

\* a reference answered by the bare-filename lookup after the candidate key missed
C1_Witness ==
  \E n \in 1..Len(log) :
    log[n].tier = 2 /\ log[n].path \notin DOMAIN log[n].before /\ OutAttr(log[n]).data

C3_UnresolvedKept ==
  \A n \in 1..Len(log) :
    LET e == log[n]
    IN (MissesBoth(e) /\ Matching(e) = {})
       => /\ e.tier = 0
          /\ e.chapter \in 1..Len(html_content)
          /\ html_content[e.chapter].name = e.file
          /\ OutAttr(e) = Plain(e.src)
          /\ e.after = e.before

\* an unresolvable reference in an archive that does hold images
C3_Witness ==
  \E n \in 1..Len(log) :
    /\ MissesBoth(log[n]) /\ Matching(log[n]) = {}
    /\ ImageIdx # {}
    /\ OutAttr(log[n]) = Plain(log[n].src)

\* the suffixes of the fixed table
TableExts ==
  { <<".", "j", "p", "g">>, <<".", "j", "p", "e", "g">>, <<".", "p", "n", "g">>,
    <<".", "g", "i", "f">>, <<".", "s", "v", "g">>, <<".", "w", "e", "b", "p">> }

\* C4: an image without a declared media type whose extension, compared
\* case-insensitively, is in the fixed table has a catalog entry carrying
\* the table's MIME type at every point of the conversion.
C4_CatalogMimeFromTable ==
  \A i \in ImageIdx :
    LET item == book.items[i]
        ext == Lower(SplitextExt(item.name))
    IN (item.media_type = "" /\ ext \in TableExts /\ item.name \in DOMAIN images)
       => images[item.name].mt = MimeMap(ext)

\* a catalog whose every key is the path of a readable image item of the
\* book and maps to a data reference of that item's payload
CatalogSound(catalog) ==
  \A k \in DOMAIN catalog :
    \E i \in ImageIdx :
      /\ book.items[i].name = k
      /\ book.items[i].readable
      /\ catalog[k].data
      /\ catalog[k].b64 = B64(book.items[i].content)

\* C5: every catalog key is the full archive path of an image item whose
\* payload could be read and maps to a data reference of that payload; an
\* unreadable image is never a key; once the catalog is built every readable
\* image is a key, whatever other images failed.
C5_CatalogKeys ==
  /\ CatalogSound(images)
  /\ \A n \in 1..Len(log) : CatalogSound(log[n].before) /\ CatalogSound(log[n].after)
  /\ Converting => \A i \in ImageIdx : book.items[i].readable <=> book.items[i].name \in DOMAIN images

\* a scan that passed over an unreadable image and stored a readable one
\* listed after it
C5_Witness ==
  /\ pc = "content_check"
  /\ \E n \in 1..Len(log), i \in ImageIdx :
       /\ log[n].tier = 3
       /\ ~book.items[i].readable
       /\ i < log[n].item
       /\ book.items[log[n].item].name \in DOMAIN images

\* C6: rendering is attempted exactly when the input exists and a chapter
\* was extracted.  A missing input is reported not-found before the archive
\* is opened; an archive that cannot be opened or holds no HTML item is
\* reported no-content; otherwise the renderer runs once and the call
\* returns what rendering returned.
C6_RenderIffContent ==
  /\ pc = "returned" =>
       /\ ~path_exists => message = "not_found" /\ ~retval /\ render_calls = 0 /\ ~opened
       /\ (path_exists /\ (~opened \/ html_content = <<>>))
            => message = "no_content" /\ ~retval /\ render_calls = 0
       /\ (path_exists /\ opened /\ html_content # <<>>)
            => /\ render_calls = 1
               /\ message \in {"success", "render_error"}
               /\ retval <=> message = "success"
  /\ (pc = "content_check" /\ opened) =>
       (html_content = <<>> <=>
          ~\E i \in 1..Len(book.items) : book.items[i].kind = "html" /\ book.items[i].readable)
  /\ render_calls \in {0, 1}
  /\ render_calls = 1 => pc = "returned"

\* an archive that was opened, held images but no chapter, and was not rendered
C6_Witness ==
  /\ pc = "returned"
  /\ path_exists /\ opened /\ ImageIdx # {}
  /\ html_content = <<>>
  /\ message = "no_content"

\* number of TRUE entries of a sequence of booleans
RECURSIVE CountTrue(_)
CountTrue(q) == IF q = <<>> THEN 0 ELSE (IF Head(q) THEN 1 ELSE 0) + CountTrue(Tail(q))

\* C7: in batch mode the files are converted once each, in order, whatever
\* the earlier outcomes; every conversion starts with an empty catalog; the
\* tally is the number of conversions that returned success, out of nfiles.
C7_BatchTally ==
  mode = "batch" =>
    /\ started = [i \in 1..Len(started) |-> i]
    /\ Len(started) <= nfiles
    /\ success_count = CountTrue(results)
    /\ pc \in {"epub_to_pdf", "read_epub", "extract_images"}
         => images = EmptyCatalog /\ log = <<>> /\ html_content = <<>>
    /\ pc = "done" => Len(started) = nfiles /\ Len(results) = nfiles

\* a batch that ended with a failure followed by a success
C7_Witness ==
  /\ mode = "batch" /\ pc = "done" /\ nfiles = 2
  /\ results = <<FALSE, TRUE>>
  /\ success_count = 1

\* positions of the page-break pieces of the assembled markup
Breaks == {i \in 1..Len(combined_html) : combined_html[i].tok = "page_break"}

\* positions of the chapter pieces of the assembled markup
Bodies == {i \in 1..Len(combined_html) : combined_html[i].tok \in {"body_children", "whole"}}

\* C8: the markup assembled for N >= 1 chapters holds N - 1 page breaks,
\* each immediately before the content of a chapter after the first and
\* immediately after the previous chapter's content; the chapter contents
\* follow the order of the chapter list.
C8_PageBreaks ==
  render_calls = 1 =>
    LET N == Len(html_content)
        chapter_pos == [k \in 1..N |-> Len(css_content) + 1 + 2 * k]
    IN /\ N >= 1
       /\ Cardinality(Breaks) = N - 1
       /\ Cardinality(Bodies) = N
       /\ \A k \in 1..N :
            /\ chapter_pos[k] \in Bodies
            /\ combined_html[chapter_pos[k]].id = html_content[k].id
            /\ combined_html[chapter_pos[k]].attrs = html_content[k].attrs
            /\ (chapter_pos[k] - 1 \in Breaks) <=> k > 1
       /\ combined_html[Len(combined_html)].tok = "doc_end"
       /\ Len(combined_html) = chapter_pos[N] + 1

\* two chapters assembled with one page break between them
C8_Witness ==
  /\ render_calls = 1
  /\ Len(html_content) = 2
  /\ Cardinality(Breaks) = 1

\* ids of the readable HTML items of the current book
HtmlIds == {book.items[i].id : i \in {j \in 1..Len(book.items) :
                                        book.items[j].kind = "html" /\ book.items[j].readable}}

\* position of the first entry of the spine naming id
FirstInSpine(id) ==
  CHOOSE i \in 1..Len(book.spine) :
    book.spine[i].id = id /\ \A j \in 1..(i - 1) : book.spine[j].id # id

\* position of the first item of the archive with that id
FirstInArchive(id) ==
  CHOOSE i \in 1..Len(book.items) :
    book.items[i].id = id /\ \A j \in 1..(i - 1) : book.items[j].id # id

SpineHtmlIds == {book.spine[i].id : i \in 1..Len(book.spine)} \cap HtmlIds

\* C9: the chapter list holds the HTML documents the spine names, once
\* each, in spine order; with an empty spine it holds all HTML items in
\* archive order.
C9_ChapterOrder ==
  (pc \in {"content_check", "returned"} /\ opened) =>
    LET ids == [k \in 1..Len(html_content) |-> html_content[k].id]
    IN /\ \A k, l \in 1..Len(ids) : k < l => ids[k] # ids[l]
       /\ SpineHtmlIds # {} =>
            /\ {ids[k] : k \in 1..Len(ids)} = SpineHtmlIds
            /\ \A k, l \in 1..Len(ids) : k < l => FirstInSpine(ids[k]) < FirstInSpine(ids[l])
       /\ book.spine = <<>> =>
            /\ {ids[k] : k \in 1..Len(ids)} = HtmlIds
            /\ \A k, l \in 1..Len(ids) : k < l => FirstInArchive(ids[k]) < FirstInArchive(ids[l])

\* two chapters whose spine order is the reverse of their archive order,
\* the spine naming one of them twice
C9_Witness ==
  /\ pc = "content_check" /\ opened
  /\ Len(html_content) = 2
  /\ Len(book.spine) = 3
  /\ FirstInArchive(html_content[2].id) < FirstInArchive(html_content[1].id)

\* C10 as stated: when both lookups miss, the scan accepts the first image
\* item, in archive order, that satisfies its condition, substitutes that
\* item's data reference and stores the item under its own path.
C10_FirstMatchAccepted ==
  \A n \in 1..Len(log) :
    LET e == log[n]
    IN (MissesBoth(e) /\ Matching(e) # {})
       => LET first == CHOOSE i \in Matching(e) : \A j \in Matching(e) : i <= j
          IN /\ e.tier = 3
             /\ e.item = first
             /\ OutAttr(e).data /\ OutAttr(e).b64 = B64(book.items[first].content)
             /\ book.items[first].name \in DOMAIN e.after

\* image items satisfying the fallback condition whose payload can be read
ReadableMatching(e) == {i \in Matching(e) : book.items[i].readable}

\* C10 amended: the scan accepts the first image item, in archive order,
\* that satisfies its condition and whose payload can be read; matching
\* items that cannot be read are passed over, and when no readable item
\* matches the reference is left as it was.
C10_FirstReadableMatchAccepted ==
  \A n \in 1..Len(log) :
    LET e == log[n]
    IN MissesBoth(e) =>
         /\ ReadableMatching(e) # {} =>
              LET first == CHOOSE i \in ReadableMatching(e) :
                             \A j \in ReadableMatching(e) : i <= j
              IN /\ e.tier = 3
                 /\ e.item = first
                 /\ OutAttr(e).data /\ OutAttr(e).b64 = B64(book.items[first].content)
                 /\ book.items[first].name \in DOMAIN e.after
                 /\ e.after[book.items[first].name] = OutAttr(e)
                 /\ \A k \in DOMAIN e.before :
                      k # book.items[first].name => e.after[k] = e.before[k]
         /\ ReadableMatching(e) = {} => e.tier = 0 /\ OutAttr(e) = Plain(e.src)

\* a scan with two readable matches that took the one listed first, by the
\* substring condition alone
C10_Witness ==
  \E n \in 1..Len(log) :
    LET e == log[n]
    IN /\ e.tier = 3
       /\ Cardinality(ReadableMatching(e)) = 2
       /\ \A j \in ReadableMatching(e) : e.item <= j
       /\ ~EndsWith(book.items[e.item].name, e.name)
       /\ book.items[e.item].name # e.path

====
